---------------------------- MODULE Spec2Model ----------------------------
(***************************************************************************)
(* A model of render.py: the script that turns one round of a game log     *)
(* into frames (<turn>.png in the working directory) and a video.          *)
(*                                                                         *)
(*   Spec        main(): one process after another in one working          *)
(*               directory (the directory's files outlive a process)       *)
(*   SpecRound   class Round used as a library: two Round objects          *)
(*   SpecCoords  convert_coords on IEEE-754 doubles                        *)
(*   SpecColour  clamp and the token colour of the render loop             *)
(***************************************************************************)
EXTENDS Integers, Sequences, FiniteSets

VARIABLES
    \* ---- main() ----
    pc,            \* where main() stands: idle/read/parse/render/assemble/upload/put/done/aborted
    log,           \* text of game.gamelog, a sequence of text items
    round_id,      \* args.RID
    online,        \* args.offline (store_false: TRUE unless --offline is given)
    content,       \* the list of lines main() iterates over
    pos,           \* number of lines of content the parse loop has consumed
    turn_number,   \* loop variable of the render loop (next value to take)
    rstr_all,      \* red total per rendered turn
    bstr_all,      \* blue total per rendered turn
    hist,          \* histogram data of the last rendered turn: <<blue, red>>
    colours,       \* rgb of every token of the last rendered turn
    files,         \* the png files of the working directory (their numbers)
    fresh,         \* history: the png files written by the current process
    video,         \* frames written to <game>_<round>.mp4, in order
    videoFresh,    \* history: the mp4 was written by the current process
    exc,           \* the exception that ended the process, or "none"
    warned,        \* warnings.warn was called
    uploaded,      \* the upload to S3 succeeded
    putTried,      \* the PUT to the API was issued
    \* ---- class Round ----
    Turns,         \* Round._Turns: the class attribute, one dict for all instances
    turn_counter,  \* Round.__turn_counter as seen from each instance
    calls,         \* history: number of add_turn calls per instance
    owner,         \* history: which instance stored the turn under each key
    lost,          \* history: an add_turn replaced a turn stored earlier
    explicit,      \* history: some add_turn was given t_number
    \* ---- convert_coords ----
    cx, cy, cout,
    \* ---- clamp and the token colour ----
    strength, faction, rgb, clampIn, clampOut

varsMain   == <<pc, log, round_id, online, content, pos, turn_number, rstr_all,
                bstr_all, hist, colours, files, fresh, video, videoFresh, exc,
                warned, uploaded, putTried>>
varsRound  == <<Turns, turn_counter, calls, owner, lost, explicit>>
varsCoords == <<cx, cy, cout>>
varsColour == <<strength, faction, rgb, clampIn, clampOut>>
vars       == <<varsMain, varsRound, varsCoords, varsColour>>

-----------------------------------------------------------------------------
(* Bounds *)

MaxTurns == 3        \* records in the target round's section of the log

-----------------------------------------------------------------------------
(* Text.  A text is a sequence of items: a newline, the word end, a marker  *)
(* "game = n", or one well-formed list-of-tuples literal.  A line of a      *)
(* split text is the sequence of items between two newlines.               *)

NL       == [k |-> "nl",   n |-> 0, turn |-> <<>>]
END      == [k |-> "end",  n |-> 0, turn |-> <<>>]
Game(n)  == [k |-> "game", n |-> n, turn |-> <<>>]
Rec(t)   == [k |-> "rec",  n |-> 0, turn |-> t]

\* Tokens are Python tuples (x, y, strength, faction).
B5    == <<0, 0, 5, "B">>
R10   == <<1, 1, 10, "R">>
R20   == <<99, 99, 20, "R">>
XOut  == <<150, 5, 10, "R">>
YOut  == <<0, 100, 5, "B">>
YNeg  == <<5, -1, 5, "B">>

\* The turn records a log may hold.
TurnPool == { <<B5>>, <<B5, R10>>, <<R20, R10>>, <<B5, XOut>>, <<YOut>>, <<YNeg, R10>> }


-----------------------------------------------------------------------------
(* str.partition and str.split *)

RECURSIVE FindFrom(_, _, _)
\* Index of the first occurrence of sep in s at or after i; 0 when there is none.
FindFrom(s, sep, i) ==
    IF i > Len(s) THEN 0
    ELSE IF s[i] = sep THEN i
    ELSE FindFrom(s, sep, i + 1)

\* s.partition(sep)[0]: the text before the first sep, all of s without one.
PartitionHead(s, sep) ==
    LET i == FindFrom(s, sep, 1)
    IN  IF i = 0 THEN s ELSE SubSeq(s, 1, i - 1)

\* s.partition(sep)[2]: the text after the first sep, '' without one.
PartitionTail(s, sep) ==
    LET i == FindFrom(s, sep, 1)
    IN  IF i = 0 THEN <<>> ELSE SubSeq(s, i + 1, Len(s))

RECURSIVE SplitFrom(_, _, _)
SplitFrom(s, i, line) ==
    IF i > Len(s) THEN <<line>>
    ELSE IF s[i] = NL THEN <<line>> \o SplitFrom(s, i + 1, <<>>)
    ELSE SplitFrom(s, i + 1, Append(line, s[i]))

\* s.split('\n'): always at least one line.
Split(s) == SplitFrom(s, 1, <<>>)

\* The last line removed when it is empty, or else when it is the word end.
PopLast(l) ==
    IF l[Len(l)] = <<>> THEN SubSeq(l, 1, Len(l) - 1)
    ELSE IF l[Len(l)] = <<END>> THEN SubSeq(l, 1, Len(l) - 1)
    ELSE l

\* The lines main() keeps of the log for round rid; ok is FALSE where
\* content[-1] is evaluated on an empty list (IndexError).
ExtractLines(text, rid) ==
    LET section == PartitionHead(PartitionTail(text, Game(rid)), Game(rid + 1))
        l0 == Split(section)
        l1 == IF l0[1] = <<>> THEN Tail(l0) ELSE l0
    IN  IF l1 = <<>> THEN [ok |-> FALSE, lines |-> <<>>]
        ELSE [ok |-> TRUE, lines |-> PopLast(l1)]

\* eval(line) returns a list of tuples exactly for a list-of-tuples literal.
EvalOK(line) == Len(line) = 1 /\ line[1].k = "rec"
EvalValue(line) == line[1].turn
EvalError(line) ==
    IF line = <<END>> THEN "NameError" ELSE "SyntaxError"

\* tup[0] in range(0, 100) and tup[1] in range(0, 100)
OnBoardXOnly(tup) == tup[1] \in 0..99
OnBoard(tup) == tup[1] \in 0..99 /\ tup[2] \in 0..99

-----------------------------------------------------------------------------
(* class Round *)

NoTurns == [k \in {} |-> [list |-> <<>>, number |-> 0]]

\* self._Turns: no instance ever binds _Turns, so the lookup ends at the class.
TurnsOf(self) == Turns

get_number_turns(self) == Cardinality(DOMAIN TurnsOf(self))

\* get_turn raises KeyError where HasTurn is FALSE.
HasTurn(self, number) == number \in DOMAIN TurnsOf(self)
get_turn(self, number) == TurnsOf(self)[number]

\* The number add_turn stores the turn under: t_number is <<>> for None.
TurnKey(self, t_number) ==
    IF t_number # <<>> THEN t_number[1] ELSE turn_counter[self] + 1

add_turn(self, in_list, t_number) ==
    LET number == TurnKey(self, t_number)
    IN  /\ turn_counter' = IF t_number # <<>> THEN turn_counter
                           ELSE [turn_counter EXCEPT ![self] = number]
        /\ Turns' = [k \in DOMAIN Turns \cup {number} |->
                        IF k = number THEN [list |-> in_list, number |-> number]
                        ELSE Turns[k]]
        /\ calls' = [calls EXCEPT ![self] = @ + 1]
        /\ owner' = [k \in DOMAIN Turns \cup {number} |->
                        IF k = number THEN self ELSE owner[k]]
        /\ lost' = (lost \/ number \in DOMAIN Turns)
        /\ explicit' = (explicit \/ t_number # <<>>)

-----------------------------------------------------------------------------
(* The render loop's statistics and colours *)

\* min alone: the lower limit forgotten.
clampUpperOnly(n, minn, maxn) == IF maxn < n THEN maxn ELSE n

clamp(n, minn, maxn) ==
    LET m == IF maxn < n THEN maxn ELSE n      \* min(maxn, n)
    IN  IF m > minn THEN m ELSE minn           \* max(m, minn)

Intensity(s) == clamp(220 - (11 * s), 0, 255)

\* rgb of a token; a tuple whose faction is neither 'B' nor 'R' sets none.
TokenColour(tup) ==
    IF tup[4] = "B" THEN <<Intensity(tup[3]), Intensity(tup[3]), 255>>
    ELSE IF tup[4] = "R" THEN <<255, Intensity(tup[3]), Intensity(tup[3])>>
    ELSE <<>>

RECURSIVE StrengthOfAny(_, _)
StrengthOfAny(list, f) ==
    IF list = <<>> THEN 0
    ELSE Head(list)[3] + StrengthOfAny(Tail(list), f)

RECURSIVE StrengthOf(_, _)
\* What the loop over turn.list adds to bstr (f = "B") or rstr (f = "R"),
\* both set to 0 before the loop.
StrengthOf(list, f) ==
    IF list = <<>> THEN 0
    ELSE (IF Head(list)[4] = f THEN Head(list)[3] ELSE 0) + StrengthOf(Tail(list), f)

RECURSIVE HistOf(_, _)
\* What the loop appends to hist[0] (f = "B") or hist[1] (f = "R").
HistOf(list, f) ==
    IF list = <<>> THEN <<>>
    ELSE (IF Head(list)[4] = f THEN <<Head(list)[3]>> ELSE <<>>) \o HistOf(Tail(list), f)

RECURSIVE Ascending(_)
\* natsorted of the names <k>.png: ascending by number.
Ascending(S) ==
    IF S = {} THEN <<>>
    ELSE LET m == CHOOSE a \in S : \A b \in S : a <= b
         IN  <<m>> \o Ascending(S \ {m})

\* The last turn number the render loop takes: range(1, get_number_turns()).
LastRendered == get_number_turns("data") - 1


-----------------------------------------------------------------------------
(* The logs a process may find in game.gamelog *)

RECURSIVE JoinLines(_)
\* One record per line, a newline between two records.
JoinLines(recs) ==
    IF recs = <<>> THEN <<>>
    ELSE IF Len(recs) = 1 THEN <<Rec(recs[1])>>
    ELSE <<Rec(recs[1]), NL>> \o JoinLines(Tail(recs))

Sections == UNION { [1..n -> TurnPool] : n \in 0..MaxTurns }

\* What follows the last record of the target round.
Tails(rid) ==
    { <<>>,
      <<NL>>,
      <<NL, END>>,
      <<NL, END, NL>>,
      <<NL, Game(rid + 1), NL, Rec(<<R20, R10>>), NL>>,
      <<NL, END, NL, Game(rid + 1), NL, Rec(<<R20, R10>>), NL>> }

\* What follows the target round's marker on its line and after it.
Leads == { <<NL>>, <<>> }

LogText(rid, lead, recs, tail) ==
    <<Game(rid - 1), NL, Rec(<<B5>>), NL, Game(rid)>> \o lead \o JoinLines(recs) \o tail

RoundIds == { 3 }

-----------------------------------------------------------------------------
(* main() *)

Instances == { "data" }

\* Lines 168-202 and the start of a process: the arguments are parsed, the
\* process's objects are new, the working directory is as the last process
\* left it.
StartRun ==
    /\ pc = "idle"
    /\ \E rid \in RoundIds, on \in BOOLEAN, lead \in Leads, recs \in Sections :
          \E tail \in Tails(rid) :
             /\ round_id' = rid
             /\ online' = on
             /\ log' = LogText(rid, lead, recs, tail)
    /\ pc' = "read"
    /\ content' = <<>>
    /\ pos' = 0
    /\ turn_number' = 1
    /\ rstr_all' = <<>>
    /\ bstr_all' = <<>>
    /\ hist' = << <<>>, <<>> >>
    /\ colours' = <<>>
    /\ fresh' = {}
    /\ videoFresh' = FALSE
    /\ exc' = "none"
    /\ warned' = FALSE
    /\ uploaded' = FALSE
    /\ putTried' = FALSE
    /\ Turns' = NoTurns
    /\ turn_counter' = [r \in Instances |-> 0]
    /\ calls' = [r \in Instances |-> 0]
    /\ owner' = [k \in {} |-> "data"]
    /\ lost' = FALSE
    /\ explicit' = FALSE
    /\ UNCHANGED <<files, video, varsCoords, varsColour>>

\* The process ends, normally or by an uncaught exception: its objects are
\* gone, the files it wrote stay, and no file is the current process's.
Exit ==
    /\ pc \in { "done", "aborted" }
    /\ pc' = "idle"
    /\ log' = <<>>
    /\ content' = <<>>
    /\ pos' = 0
    /\ turn_number' = 1
    /\ rstr_all' = <<>>
    /\ bstr_all' = <<>>
    /\ hist' = << <<>>, <<>> >>
    /\ colours' = <<>>
    /\ fresh' = {}
    /\ videoFresh' = FALSE
    /\ video' = [i \in 1..Len(video) |-> [video[i] EXCEPT !.current = FALSE]]
    /\ exc' = "none"
    /\ warned' = FALSE
    /\ uploaded' = FALSE
    /\ putTried' = FALSE
    /\ Turns' = NoTurns
    /\ turn_counter' = [r \in Instances |-> 0]
    /\ calls' = [r \in Instances |-> 0]
    /\ owner' = [k \in {} |-> "data"]
    /\ lost' = FALSE
    /\ explicit' = FALSE
    /\ UNCHANGED <<round_id, online, files, varsCoords, varsColour>>

\* Lines 204-224: the log is fetched (online) and the round's lines are cut
\* out of it.
ReadLog ==
    /\ pc = "read"
    /\ \E fetched \in (IF online THEN BOOLEAN ELSE { TRUE }) :
          LET got == ExtractLines(log, round_id)
          IN  IF ~fetched
              THEN /\ pc' = "aborted"
                   /\ exc' = "ClientError"
                   /\ UNCHANGED content
              ELSE IF ~got.ok
              THEN /\ pc' = "aborted"
                   /\ exc' = "IndexError"
                   /\ UNCHANGED content
              ELSE /\ pc' = "parse"
                   /\ content' = got.lines
                   /\ UNCHANGED exc
    /\ UNCHANGED <<log, round_id, online, pos, turn_number, rstr_all, bstr_all,
                   hist, colours, files, fresh, video, videoFresh, warned,
                   uploaded, putTried, varsRound, varsCoords, varsColour>>

\* Lines 226-232, one iteration: the line is evaluated, every token checked,
\* the turn stored.
ParseTurn ==
    /\ pc = "parse"
    /\ pos < Len(content)
    /\ LET line == content[pos + 1]
       IN  IF ~EvalOK(line)
           THEN /\ pc' = "aborted"
                /\ exc' = EvalError(line)
                /\ UNCHANGED <<pos, varsRound>>
           ELSE IF \E i \in 1..Len(EvalValue(line)) : ~OnBoard(EvalValue(line)[i])
           THEN /\ pc' = "aborted"
                /\ exc' = "RuntimeError"
                /\ UNCHANGED <<pos, varsRound>>
           ELSE /\ add_turn("data", EvalValue(line), <<>>)
                /\ pos' = pos + 1
                /\ UNCHANGED <<pc, exc>>
    /\ UNCHANGED <<log, round_id, online, content, turn_number, rstr_all, bstr_all,
                   hist, colours, files, fresh, video, videoFresh, warned,
                   uploaded, putTried, varsCoords, varsColour>>

\* Lines 234-237: the parse loop is over, the render loop is set up.
StartRender ==
    /\ pc = "parse"
    /\ pos = Len(content)
    /\ pc' = "render"
    /\ rstr_all' = <<>>
    /\ bstr_all' = <<>>
    /\ turn_number' = 1
    /\ UNCHANGED <<log, round_id, online, content, pos, hist, colours, files,
                   fresh, video, videoFresh, exc, warned, uploaded, putTried,
                   varsRound, varsCoords, varsColour>>

\* Lines 237-415, one iteration: the turn's frame is drawn and saved.
RenderTurn ==
    /\ pc = "render"
    /\ turn_number <= LastRendered
    /\ IF ~HasTurn("data", turn_number)
       THEN /\ pc' = "aborted"
            /\ exc' = "KeyError"
            /\ UNCHANGED <<turn_number, rstr_all, bstr_all, hist, colours, files, fresh>>
       ELSE LET turn == get_turn("data", turn_number)
            IN  /\ rstr_all' = Append(rstr_all, StrengthOf(turn.list, "R"))
                /\ bstr_all' = Append(bstr_all, StrengthOf(turn.list, "B"))
                /\ hist' = <<HistOf(turn.list, "B"), HistOf(turn.list, "R")>>
                /\ colours' = [i \in 1..Len(turn.list) |-> TokenColour(turn.list[i])]
                /\ files' = files \cup { turn_number }
                /\ fresh' = fresh \cup { turn_number }
                /\ turn_number' = turn_number + 1
                /\ UNCHANGED <<pc, exc>>
    /\ UNCHANGED <<log, round_id, online, content, pos, video, videoFresh, warned,
                   uploaded, putTried, varsRound, varsCoords, varsColour>>

\* convert_frames_to_video: every png of the directory, in natural order.
FramesOf(pngs) ==
    LET names == Ascending(pngs)
    IN  [i \in 1..Len(names) |-> [png |-> names[i], current |-> names[i] \in fresh]]

\* Line 417: the render loop is over, the video is written.
Assemble ==
    /\ pc = "render"
    /\ turn_number > LastRendered
    /\ video' = FramesOf(files)
    /\ videoFresh' = TRUE
    /\ pc' = IF online THEN "upload" ELSE "done"
    /\ UNCHANGED <<log, round_id, online, content, pos, turn_number, rstr_all,
                   bstr_all, hist, colours, files, fresh, exc, warned, uploaded,
                   putTried, varsRound, varsCoords, varsColour>>

\* Line 422: s3.upload_file returns, or raises when the transfer fails.
Upload ==
    /\ pc = "upload"
    /\ \E sent \in BOOLEAN :
          IF sent
          THEN /\ uploaded' = TRUE
               /\ pc' = "put"
               /\ UNCHANGED exc
          ELSE /\ pc' = "aborted"
               /\ exc' = "S3UploadFailedError"
               /\ UNCHANGED uploaded
    /\ UNCHANGED <<log, round_id, online, content, pos, turn_number, rstr_all,
                   bstr_all, hist, colours, files, fresh, video, videoFresh,
                   warned, putTried, varsRound, varsCoords, varsColour>>

\* Lines 424-430: the PUT answers 200, answers another status, or raises.
MarkRendered ==
    /\ pc = "put"
    /\ putTried' = TRUE
    /\ \E answer \in { "200", "other", "raise" } :
          IF answer = "raise"
          THEN /\ pc' = "aborted"
               /\ exc' = "ConnectionError"
               /\ UNCHANGED warned
          ELSE /\ pc' = "done"
               /\ warned' = (answer # "200")
               /\ UNCHANGED exc
    /\ UNCHANGED <<log, round_id, online, content, pos, turn_number, rstr_all,
                   bstr_all, hist, colours, files, fresh, video, videoFresh,
                   uploaded, varsRound, varsCoords, varsColour>>

Init ==
    /\ pc = "idle"
    /\ log = <<>>
    /\ round_id = 3
    /\ online = FALSE
    /\ content = <<>>
    /\ pos = 0
    /\ turn_number = 1
    /\ rstr_all = <<>>
    /\ bstr_all = <<>>
    /\ hist = << <<>>, <<>> >>
    /\ colours = <<>>
    /\ files = {}
    /\ fresh = {}
    /\ video = <<>>
    /\ videoFresh = FALSE
    /\ exc = "none"
    /\ warned = FALSE
    /\ uploaded = FALSE
    /\ putTried = FALSE
    /\ Turns = NoTurns
    /\ turn_counter = [r \in Instances |-> 0]
    /\ calls = [r \in Instances |-> 0]
    /\ owner = [k \in {} |-> "data"]
    /\ lost = FALSE
    /\ explicit = FALSE
    /\ cx = 0 /\ cy = 0 /\ cout = <<>>
    /\ strength = 0 /\ faction = "B" /\ rgb = <<>> /\ clampIn = 0 /\ clampOut = <<>>

Next ==
    \/ StartRun
    \/ ReadLog
    \/ ParseTurn
    \/ StartRender
    \/ RenderTurn
    \/ Assemble
    \/ Upload
    \/ MarkRendered
    \/ Exit

Spec == Init /\ [][Next]_vars


-----------------------------------------------------------------------------
(* Properties of main() *)

IsRecord(item) == item.k = "rec"

\* The turn records of the target round, in log order: those after the
\* round's marker and before the next round's.
SectionRecords ==
    LET from == FindFrom(log, Game(round_id), 1)
        next == FindFrom(log, Game(round_id + 1), from + 1)
        upto == IF next = 0 THEN Len(log) ELSE next - 1
        recs == IF from = 0 THEN <<>> ELSE SelectSeq(SubSeq(log, from + 1, upto), IsRecord)
    IN  [n \in 1..Len(recs) |-> recs[n].turn]

Stray(tup) == tup[1] < 0 \/ tup[1] >= 100 \/ tup[2] < 0 \/ tup[2] >= 100

StrayAt(n) == \E i \in 1..Len(SectionRecords[n]) : Stray(SectionRecords[n][i])

SectionHasStray == \E n \in 1..Len(SectionRecords) : StrayAt(n)

RECURSIVE SumUpTo(_, _, _)
\* Sum of the strengths of faction f among the first i tokens of list.
SumUpTo(list, f, i) ==
    IF i = 0 THEN 0
    ELSE SumUpTo(list, f, i - 1) + (IF list[i][4] = f THEN list[i][3] ELSE 0)

FactionTotal(list, f) == SumUpTo(list, f, Len(list))

NonDecreasing(q) == \A k \in 1..(Len(q) - 1) : q[k + 1] >= q[k]

RenderOver == pc \in { "upload", "put", "done" } \/ (pc = "aborted" /\ videoFresh)

\* C1: a round of N >= 1 turn records, all tokens in bounds, gives N frames,
\* one per turn number 1..N, and N entries in each faction's total sequence;
\* the round <<B5>>, <<B5, R10>> gives two frames, blue totals <<5, 5>>, red
\* totals <<0, 10>> and a last histogram of one blue 5 and one red 10.
C1_FramePerTurn ==
    (RenderOver /\ get_number_turns("data") >= 1) =>
        /\ fresh = 1..get_number_turns("data")
        /\ Len(rstr_all) = get_number_turns("data")
        /\ Len(bstr_all) = get_number_turns("data")
        /\ (SectionRecords = << <<B5>>, <<B5, R10>> >> =>
               /\ bstr_all = <<5, 5>>
               /\ rstr_all = <<0, 10>>
               /\ hist = << <<5>>, <<10>> >>)

C3_FailFast ==
    SectionHasStray =>
        /\ pc \in { "read", "parse", "aborted" }
        /\ fresh = {}
        /\ ~videoFresh
        /\ ~uploaded
        /\ ~putTried

\* The stray token is in the third record, after two turns were stored.
C3_Witness ==
    /\ pc = "aborted"
    /\ exc = "RuntimeError"
    /\ Len(SectionRecords) = 3
    /\ StrayAt(3) /\ ~StrayAt(1) /\ ~StrayAt(2)
    /\ get_number_turns("data") = 2
    /\ fresh = {}

Blank(line) == line = <<>> \/ line = <<END>>

\* C4: the lines kept for the round are the lines between the two markers,
\* with no empty line and no terminator line at either end.
C4_ParserIsolation ==
    pc = "parse" =>
        /\ content = <<>> \/ (~Blank(content[1]) /\ ~Blank(content[Len(content)]))
        /\ content = [n \in 1..Len(SectionRecords) |-> <<Rec(SectionRecords[n])>>]

\* C5: the video holds exactly the frames the current process wrote, each
\* once, in ascending turn order.
C5_OnlyThisRound ==
    videoFresh =>
        /\ Len(video) = Cardinality(fresh)
        /\ \A i \in 1..Len(video) : video[i].current /\ video[i].png \in fresh
        /\ \A i \in 1..(Len(video) - 1) : video[i].png < video[i + 1].png

\* C7: once the video is written in online mode the process does not end by
\* an exception, and it ends only after the PUT was issued.
C7_WriteBackNonFatal ==
    (videoFresh /\ online) =>
        /\ pc # "aborted"
        /\ (pc = "done" => putTried)


-----------------------------------------------------------------------------
(* class Round as a library: two Round objects of one process *)

MaxCalls  == 3       \* add_turn calls in one behaviour
MaxTurnNo == 3       \* largest t_number passed to add_turn

RoundObjects == { "r1", "r2" }

InitRound ==
    /\ pc = "library"
    /\ log = <<>>
    /\ round_id = 3
    /\ online = FALSE
    /\ content = <<>>
    /\ pos = 0
    /\ turn_number = 1
    /\ rstr_all = <<>>
    /\ bstr_all = <<>>
    /\ hist = << <<>>, <<>> >>
    /\ colours = <<>>
    /\ files = {}
    /\ fresh = {}
    /\ video = <<>>
    /\ videoFresh = FALSE
    /\ exc = "none"
    /\ warned = FALSE
    /\ uploaded = FALSE
    /\ putTried = FALSE
    /\ Turns = NoTurns
    /\ turn_counter = [r \in RoundObjects |-> 0]
    /\ calls = [r \in RoundObjects |-> 0]
    /\ owner = [k \in {} |-> "r1"]
    /\ lost = FALSE
    /\ explicit = FALSE
    /\ cx = 0 /\ cy = 0 /\ cout = <<>>
    /\ strength = 0 /\ faction = "B" /\ rgb = <<>> /\ clampIn = 0 /\ clampOut = <<>>

\* r.add_turn(in_list): the turn number is left to the Round.
AddTurnAuto ==
    /\ calls["r1"] + calls["r2"] < MaxCalls
    /\ \E self \in RoundObjects, in_list \in { <<B5>>, <<B5, R10>> } :
          add_turn(self, in_list, <<>>)
    /\ UNCHANGED <<varsMain, varsCoords, varsColour>>

\* r.add_turn(in_list, t_number)
AddTurnNumbered ==
    /\ calls["r1"] + calls["r2"] < MaxCalls
    /\ \E self \in RoundObjects, in_list \in { <<B5>>, <<B5, R10>> },
          t_number \in 1..MaxTurnNo :
          add_turn(self, in_list, <<t_number>>)
    /\ UNCHANGED <<varsMain, varsCoords, varsColour>>

NextRound == AddTurnAuto \/ AddTurnNumbered

SpecRound == InitRound /\ [][NextRound]_vars

\* C6: what a Round returns and counts is what was added to that Round, and
\* with every turn number left to the Rounds no stored turn is replaced.
C6_NoSharedStorage ==
    /\ \A r \in RoundObjects :
          /\ \A k \in 1..MaxTurnNo : HasTurn(r, k) => owner[k] = r
          /\ get_number_turns(r) <= calls[r]
    /\ ~explicit => ~lost

\* C10: with one Round in use, the stored turn numbers are exactly
\* 1..get_number_turns(), each Turn's number is its key, and no add_turn
\* replaced a turn stored earlier.
C10_Contiguous ==
    calls["r2"] = 0 =>
        /\ \A k \in 1..(MaxTurnNo + MaxCalls) :
              HasTurn("r1", k) <=> k <= get_number_turns("r1")
        /\ \A k \in 1..get_number_turns("r1") :
              HasTurn("r1", k) => get_turn("r1", k).number = k
        /\ get_number_turns("r1") = calls["r1"]
        /\ ~lost

-----------------------------------------------------------------------------
(* clamp and the token colour on their own *)

MaxStrength == 30    \* largest token strength tried
ClampSpan   == 20    \* how far beyond 0..255 the inputs of clamp reach

InitColour ==
    /\ pc = "library"
    /\ log = <<>>
    /\ round_id = 3
    /\ online = FALSE
    /\ content = <<>>
    /\ pos = 0
    /\ turn_number = 1
    /\ rstr_all = <<>>
    /\ bstr_all = <<>>
    /\ hist = << <<>>, <<>> >>
    /\ colours = <<>>
    /\ files = {}
    /\ fresh = {}
    /\ video = <<>>
    /\ videoFresh = FALSE
    /\ exc = "none"
    /\ warned = FALSE
    /\ uploaded = FALSE
    /\ putTried = FALSE
    /\ Turns = NoTurns
    /\ turn_counter = [r \in Instances |-> 0]
    /\ calls = [r \in Instances |-> 0]
    /\ owner = [k \in {} |-> "data"]
    /\ lost = FALSE
    /\ explicit = FALSE
    /\ cx = 0 /\ cy = 0 /\ cout = <<>>
    /\ strength \in 0..MaxStrength
    /\ faction \in { "B", "R" }
    /\ rgb = <<>>
    /\ clampIn \in { 0 - ClampSpan, 0 - 1, 0, 1, 220, 254, 255, 256, 255 + ClampSpan }
    /\ clampOut = <<>>

\* Lines 287-299: the rgb of one token of the given strength and faction.
ColourToken ==
    /\ rgb = <<>>
    /\ rgb' = TokenColour(<<0, 0, strength, faction>>)
    /\ UNCHANGED <<strength, faction, clampIn, clampOut, varsMain, varsRound, varsCoords>>

\* clamp(n, 0, 255)
ClampCall ==
    /\ clampOut = <<>>
    /\ clampOut' = <<clamp(clampIn, 0, 255)>>
    /\ UNCHANGED <<strength, faction, rgb, clampIn, varsMain, varsRound, varsCoords>>

NextColour == ColourToken \/ ClampCall

SpecColour == InitColour /\ [][NextColour]_vars

Channel(s) ==
    IF 220 - 11 * s < 0 THEN 0
    ELSE IF 220 - 11 * s > 255 THEN 255
    ELSE 220 - 11 * s

\* C9: the intensity of a token of strength s >= 0 is 220 - 11*s kept within
\* 0..255; Blue gets (i, i, 255) and Red (255, i, i); Blue of strength 0 gets
\* (220, 220, 255) and Blue of strength >= 20 gets (0, 0, 255); clamp(n, 0, 255)
\* is 0 below 0, 255 above 255 and n in between.
C9_TokenColour ==
    /\ rgb # <<>> =>
          /\ Channel(strength) \in 0..255
          /\ faction = "B" => rgb = <<Channel(strength), Channel(strength), 255>>
          /\ faction = "R" => rgb = <<255, Channel(strength), Channel(strength)>>
          /\ (faction = "B" /\ strength = 0) => rgb = <<220, 220, 255>>
          /\ (faction = "B" /\ strength >= 20) => rgb = <<0, 0, 255>>
    /\ clampOut # <<>> =>
          clampOut[1] = (IF clampIn < 0 THEN 0 ELSE IF clampIn > 255 THEN 255 ELSE clampIn)

\* A Blue token stronger than 20 was coloured, and clamp was given a number
\* above 255.
C9_Witness ==
    /\ faction = "B" /\ strength = 25 /\ rgb = <<0, 0, 255>>
    /\ clampIn > 255 /\ clampOut = <<255>>


-----------------------------------------------------------------------------
(* convert_coords.  Python floats are IEEE-754 doubles: every product and   *)
(* every sum is rounded to 53 significant bits, ties to even.  A double is  *)
(* held here exactly, as a count of units of 2^-54 written in binary, least *)
(* significant bit first; the values met are below 2^12, so 66 bits do.     *)

Width    == 66       \* bits held
FracBits == 54       \* bits after the binary point
Mantissa == 53       \* significant bits of a double

\* cos(30 * pi / 180) = 0.8660254037844387 (0x1.bb67ae8584cabp-1)
COS30 ==
    << 0, 1, 1, 0, 1, 0, 1, 0, 1, 0, 0, 1, 1, 0, 0, 1, 0, 0, 0, 0, 1, 1,
       0, 1, 0, 0, 0, 0, 1, 0, 1, 1, 1, 0, 1, 0, 1, 1, 1, 1, 0, 0, 1, 1,
       0, 1, 1, 0, 1, 1, 1, 0, 1, 1, 0, 0, 0, 0, 0, 0, 0, 0, 0, 0, 0, 0 >>

\* 0.5, what sin(30 deg) is in exact arithmetic
SIN30Half ==
    << 0, 0, 0, 0, 0, 0, 0, 0, 0, 0, 0, 0, 0, 0, 0, 0, 0, 0, 0, 0, 0, 0,
       0, 0, 0, 0, 0, 0, 0, 0, 0, 0, 0, 0, 0, 0, 0, 0, 0, 0, 0, 0, 0, 0,
       0, 0, 0, 0, 0, 0, 0, 0, 0, 1, 0, 0, 0, 0, 0, 0, 0, 0, 0, 0, 0, 0 >>

\* sin(30 * pi / 180) = 0.49999999999999994 (0x1.fffffffffffffp-2)
SIN30 ==
    << 1, 1, 1, 1, 1, 1, 1, 1, 1, 1, 1, 1, 1, 1, 1, 1, 1, 1, 1, 1, 1, 1,
       1, 1, 1, 1, 1, 1, 1, 1, 1, 1, 1, 1, 1, 1, 1, 1, 1, 1, 1, 1, 1, 1,
       1, 1, 1, 1, 1, 1, 1, 1, 1, 0, 0, 0, 0, 0, 0, 0, 0, 0, 0, 0, 0, 0 >>

RECURSIVE Pow2(_)
Pow2(n) == IF n = 0 THEN 1 ELSE 2 * Pow2(n - 1)

\* The double of an integer 0 <= n < 2^12.
FromInt(n) ==
    [i \in 1..Width |-> IF i <= FracBits THEN 0 ELSE (n \div Pow2(i - FracBits - 1)) % 2]

RECURSIVE AddFrom(_, _, _, _)
AddFrom(a, b, i, carry) ==
    IF i > Width THEN <<>>
    ELSE <<(a[i] + b[i] + carry) % 2>> \o AddFrom(a, b, i + 1, (a[i] + b[i] + carry) \div 2)

\* a + b, exact
AddExact(a, b) == AddFrom(a, b, 1, 0)

RECURSIVE SubFrom(_, _, _, _)
SubFrom(a, b, i, borrow) ==
    IF i > Width THEN <<>>
    ELSE <<(a[i] + 2 - b[i] - borrow) % 2>>
         \o SubFrom(a, b, i + 1, IF a[i] - b[i] - borrow < 0 THEN 1 ELSE 0)

\* a - b, exact, for a >= b
SubExact(a, b) == SubFrom(a, b, 1, 0)

RECURSIVE MulFrom(_, _, _, _)
MulFrom(a, n, i, carry) ==
    IF i > Width THEN <<>>
    ELSE <<(a[i] * n + carry) % 2>> \o MulFrom(a, n, i + 1, (a[i] * n + carry) \div 2)

\* a * n, exact, for an integer 0 <= n < 2^11
MulExact(a, n) == MulFrom(a, n, 1, 0)

\* Number of bits up to the leading one.
BitLength(a) ==
    IF \A i \in 1..Width : a[i] = 0 THEN 0
    ELSE CHOOSE i \in 1..Width : a[i] = 1 /\ \A j \in (i + 1)..Width : a[j] = 0

\* Round to nearest double, ties to even.
RoundDouble(a) ==
    LET len == BitLength(a)
        k   == len - Mantissa                  \* bits to drop
        cut == [i \in 1..Width |-> IF i <= k THEN 0 ELSE a[i]]
        up  == /\ a[k] = 1
               /\ \/ \E i \in 1..(k - 1) : a[i] = 1
                  \/ a[k + 1] = 1
    IN  IF len <= Mantissa THEN a
        ELSE IF up THEN AddExact(cut, [i \in 1..Width |-> IF i = k + 1 THEN 1 ELSE 0])
        ELSE cut

FMul(a, n) == RoundDouble(MulExact(a, n))
FAdd(a, b) == RoundDouble(AddExact(a, b))
FSub(a, b) == RoundDouble(SubExact(a, b))

RECURSIVE IntFrom(_, _)
IntFrom(a, i) == IF i > Width THEN 0 ELSE a[i] + 2 * IntFrom(a, i + 1)

\* int(a) of a double a >= 0: the fraction dropped.
ToInt(a) == IntFrom(a, FracBits + 1)

\* convert_coords(x, y) for integers 0 <= x, y <= 1100, where x_prime > 0.
convert_coords(x, y) ==
    LET x_prime == FSub(FAdd(FromInt(960), FMul(COS30, x)), FMul(COS30, y))
        y_prime == FAdd(FMul(SIN30, x), FMul(SIN30, y))
    IN  <<ToInt(x_prime), ToInt(y_prime)>>

GridStep == 10       \* the board's lines are 10 apart
GridMax  == 101      \* and its far edge is at 1010

InitCoords ==
    /\ pc = "library"
    /\ log = <<>>
    /\ round_id = 3
    /\ online = FALSE
    /\ content = <<>>
    /\ pos = 0
    /\ turn_number = 1
    /\ rstr_all = <<>>
    /\ bstr_all = <<>>
    /\ hist = << <<>>, <<>> >>
    /\ colours = <<>>
    /\ files = {}
    /\ fresh = {}
    /\ video = <<>>
    /\ videoFresh = FALSE
    /\ exc = "none"
    /\ warned = FALSE
    /\ uploaded = FALSE
    /\ putTried = FALSE
    /\ Turns = NoTurns
    /\ turn_counter = [r \in Instances |-> 0]
    /\ calls = [r \in Instances |-> 0]
    /\ owner = [k \in {} |-> "data"]
    /\ lost = FALSE
    /\ explicit = FALSE
    /\ cx \in { GridStep * k : k \in 0..GridMax }
    /\ cy \in { GridStep * k : k \in 0..GridMax }
    /\ cout = <<>>
    /\ strength = 0 /\ faction = "B" /\ rgb = <<>> /\ clampIn = 0 /\ clampOut = <<>>

\* One call convert_coords(cx, cy).
ConvertCall ==
    /\ cout = <<>>
    /\ cout' = convert_coords(cx, cy)
    /\ UNCHANGED <<cx, cy, varsMain, varsRound, varsColour>>

NextCoords == ConvertCall

SpecCoords == InitCoords /\ [][NextCoords]_vars

\* C8: convert_coords(0,0) = (960,0), convert_coords(0,1000) = (93,499),
\* convert_coords(1000,1000) = (960,999), convert_coords(1000,0) = (1826,499):
\* the two coordinates of the formula, each truncated toward zero.
C8_TestPoints ==
    cout # <<>> =>
        /\ (cx = 0 /\ cy = 0) => cout = <<960, 0>>
        /\ (cx = 0 /\ cy = 1000) => cout = <<93, 499>>
        /\ (cx = 1000 /\ cy = 1000) => cout = <<960, 999>>
        /\ (cx = 1000 /\ cy = 0) => cout = <<1826, 499>>

\* The far corner of the test was converted.
C8_Witness == cx = 1000 /\ cy = 1000 /\ cout = <<960, 999>>

=============================================================================
